---- MODULE Spec2Model ----
(***************************************************************************)
(* SmartCV Job Finder backend (src/backend/main.py): the profile           *)
(* extractor, the keyword builder, the four provider adapters and the      *)
(* find_jobs aggregator.                                                    *)
(*                                                                         *)
(* A Python str is a sequence of one-character strings, so that trimming,  *)
(* lower-casing, slicing and substring search are computed character by    *)
(* character.  A JSON value is a record tagged by its Python type in the   *)
(* field t.                                                                *)
(***************************************************************************)
EXTENDS Integers, Sequences, FiniteSets, TLC

VARIABLES pc, env, request, keywords, collected, fetched, response

vars == <<pc, env, request, keywords, collected, fetched, response>>

(***************************************************************************)
(* Python str primitives                                                   *)
(***************************************************************************)
Chars(s) == [i \in 1..Len(s) |-> SubSeq(s, i, i)]

UpperChars == Chars("ABCDEFGHIJKLMNOPQRSTUVWXYZ")

LowerChars == Chars("abcdefghijklmnopqrstuvwxyz")

Digits == Chars("0123456789")

IsSpace(c) == c \in {" ", "\n", "\t"}

IsUpper(c) == \E i \in 1..26 : UpperChars[i] = c

IsLower(c) == \E i \in 1..26 : LowerChars[i] = c

IsDigit(c) == \E i \in 1..10 : Digits[i] = c

IsAlpha(c) == IsUpper(c) \/ IsLower(c)

IsWord(c) == IsAlpha(c) \/ IsDigit(c) \/ c = "_"

LowerChar(c) == IF IsUpper(c) THEN LowerChars[CHOOSE i \in 1..26 : UpperChars[i] = c] ELSE c

UpperChar(c) == IF IsLower(c) THEN UpperChars[CHOOSE i \in 1..26 : LowerChars[i] = c] ELSE c

Lower(s) == [i \in 1..Len(s) |-> LowerChar(s[i])]

Title(s) ==
  [i \in 1..Len(s) |->
     IF i = 1 \/ ~IsAlpha(s[i - 1]) THEN UpperChar(s[i]) ELSE LowerChar(s[i])]

MinOf(S) == CHOOSE x \in S : \A y \in S : x <= y

MaxOf(S) == CHOOSE x \in S : \A y \in S : y <= x

RECURSIVE FirstNonSpace(_, _)
FirstNonSpace(s, i) ==
  IF i > Len(s) \/ ~IsSpace(s[i]) THEN i ELSE FirstNonSpace(s, i + 1)

RECURSIVE LastNonSpace(_, _)
LastNonSpace(s, i) ==
  IF i = 0 \/ ~IsSpace(s[i]) THEN i ELSE LastNonSpace(s, i - 1)

\* s.strip()
Strip(s) == SubSeq(s, FirstNonSpace(s, 1), LastNonSpace(s, Len(s)))

\* the end of a match of \s* that starts at i
SkipSpaces(s, i) == FirstNonSpace(s, i)

Take(s, n) == IF n <= 0 THEN <<>> ELSE SubSeq(s, 1, IF n < Len(s) THEN n ELSE Len(s))

Contains(hay, needle) ==
  \/ Len(needle) = 0
  \/ \E i \in 1..(Len(hay) - Len(needle) + 1) :
        \A j \in 1..Len(needle) : hay[i + j - 1] = needle[j]

RECURSIVE Join(_, _)
Join(ss, sep) ==
  IF Len(ss) = 0 THEN <<>>
  ELSE IF Len(ss) = 1 THEN ss[1]
  ELSE ss[1] \o sep \o Join(Tail(ss), sep)

Repeat(c, n) == [i \in 1..n |-> c]

(***************************************************************************)
(* AnalysisResult                                                          *)
(***************************************************************************)
AnalysisResult(job_titles, skills, experience_level, recommended_job_types, summary) ==
  [job_titles |-> job_titles, skills |-> skills, experience_level |-> experience_level,
   recommended_job_types |-> recommended_job_types, summary |-> summary]

(***************************************************************************)
(* The lexicon and analyze_cv_rule_based                                   *)
(***************************************************************************)
COMMON_SKILLS ==
  {
    Chars("python"), Chars("java"), Chars("javascript"), Chars("typescript"), Chars("c++"),
    Chars("c#"), Chars("php"), Chars("ruby"), Chars("go"), Chars("rust"), Chars("sql"),
    Chars("react"), Chars("vue"), Chars("angular"), Chars("node.js"), Chars("django"),
    Chars("flask"), Chars("fastapi"), Chars("spring"), Chars("laravel"), Chars("pandas"),
    Chars("numpy"), Chars("scikit-learn"), Chars("tensorflow"), Chars("pytorch"),
    Chars("nlp"), Chars("computer vision"), Chars("docker"), Chars("kubernetes"),
    Chars("aws"), Chars("azure"), Chars("gcp"), Chars("ci/cd"), Chars("git"),
    Chars("excel"), Chars("power bi"), Chars("tableau"), Chars("linux"), Chars("bash") }

COMMON_JOB_TITLES ==
  {
    Chars("software engineer"), Chars("backend developer"), Chars("frontend developer"),
    Chars("full stack developer"), Chars("data analyst"), Chars("data scientist"),
    Chars("machine learning engineer"), Chars("devops engineer"), Chars("product manager"),
    Chars("project manager"), Chars("ui/ux designer"), Chars("qa engineer"),
    Chars("cybersecurity analyst") }

\* the characters of the model in code point order
CodePoints ==
  Chars("\t\n !\"#'()+,-./0123456789:<>ABCDEFGHIJKLMNOPQRSTUVWXYZ[]_abcdefghijklmnopqrstuvwxyz{|}")

Ord(c) == CHOOSE i \in 1..Len(CodePoints) : CodePoints[i] = c

\* a < b, as Python orders str
StrLess(a, b) ==
  \E i \in 1..(Len(b)) :
    /\ \A h \in 1..(i - 1) : h <= Len(a) /\ a[h] = b[h]
    /\ (i > Len(a) \/ Ord(a[i]) < Ord(b[i]))

\* sorted(S) for a set of str
RECURSIVE Sorted(_)
Sorted(S) ==
  IF S = {} THEN <<>>
  ELSE LET least == CHOOSE x \in S : \A y \in S \ {x} : StrLess(x, y)
       IN  <<least>> \o Sorted(S \ {least})

StartsAt(s, i, w) ==
  /\ i + Len(w) - 1 <= Len(s)
  /\ \A j \in 1..Len(w) : s[i + j - 1] = w[j]

\* \s*\+?\s*(?:years|yrs)\b matches at k
YearsUnitAt(s, k) ==
  LET k1 == SkipSpaces(s, k)
      k2 == IF k1 <= Len(s) /\ s[k1] = "+" THEN k1 + 1 ELSE k1
      k3 == SkipSpaces(s, k2)
  IN  \E w \in {Chars("years"), Chars("yrs")} :
        /\ StartsAt(s, k3, w)
        /\ (k3 + Len(w) > Len(s) \/ ~IsWord(s[k3 + Len(w)]))

DigitValue(c) == (CHOOSE i \in 1..10 : Digits[i] = c) - 1

\* int(m.group(1)) for every match of (\d{1,2})\s*\+?\s*(?:years|yrs)\b
YearsFound(s) ==
  { DigitValue(s[i]) * 10 + DigitValue(s[i + 1]) :
      i \in {n \in 1..(Len(s) - 1) : IsDigit(s[n]) /\ IsDigit(s[n + 1]) /\ YearsUnitAt(s, n + 2)} }
    \cup
  { DigitValue(s[i]) :
      i \in {n \in 1..Len(s) : IsDigit(s[n]) /\ YearsUnitAt(s, n + 1)
                                 /\ ~(n < Len(s) /\ IsDigit(s[n + 1]))} }

ContainsAny(text, words) == \E w \in words : Contains(text, w)

analyze_cv_rule_based(cv_text) ==
  LET text == Lower(cv_text)
      skills == Sorted({k \in COMMON_SKILLS : Contains(text, Lower(k))})
      job_titles == Sorted({t \in COMMON_JOB_TITLES : Contains(text, Lower(t))})
      years == YearsFound(text)
      max_years == IF years = {} THEN 0 ELSE MaxOf(years)
      experience_level ==
        IF ContainsAny(text, {Chars("intern"), Chars("student")}) THEN Chars("student")
        ELSE IF max_years >= 8 THEN Chars("senior")
        ELSE IF max_years >= 3 THEN Chars("mid")
        ELSE IF max_years > 0 THEN Chars("junior")
        ELSE Chars("unknown")
      recommended_job_types ==
        (IF ContainsAny(text, {Chars("remote"), Chars("work from home"), Chars("wfh")})
         THEN <<Chars("remote")>> ELSE <<>>)
        \o (IF ContainsAny(text, {Chars("part-time"), Chars("part time")})
            THEN <<Chars("part-time")>> ELSE <<>>)
        \o (IF ContainsAny(text, {Chars("full-time"), Chars("full time")})
            THEN <<Chars("full-time")>> ELSE <<>>)
      stripped == Strip(cv_text)
      summary == Chars("Rule-based analysis (no API key). ") \o Take(stripped, 220)
                   \o (IF Len(stripped) > 220 THEN Chars("...") ELSE <<>>)
  IN  AnalysisResult(job_titles, skills, experience_level,
                     IF recommended_job_types = <<>> THEN <<Chars("any")>>
                     ELSE recommended_job_types,
                     summary)

(***************************************************************************)
(* build_keywords_from_analysis                                            *)
(***************************************************************************)
KeywordMax == 120

DefaultKeywords == Chars("software developer")

KeywordParts(analysis) ==
  Take(analysis.job_titles, 3) \o Take(analysis.skills, 5)
    \o Take(analysis.recommended_job_types, 2)

RECURSIVE KeywordLoop(_, _, _, _)
KeywordLoop(parts, i, seen, out) ==
  IF i > Len(parts) THEN out
  ELSE LET p == Strip(parts[i])
           k == Lower(p)
       IN  IF p = <<>> THEN KeywordLoop(parts, i + 1, seen, out)
           ELSE IF k \in seen THEN KeywordLoop(parts, i + 1, seen, out)
           ELSE KeywordLoop(parts, i + 1, seen \cup {k}, Append(out, p))

\* a build_keywords_from_analysis that forgets the [:120]
build_keywords_untruncated(analysis) ==
  LET joined == Join(KeywordLoop(KeywordParts(analysis), 1, {}, <<>>), <<" ">>)
  IN  IF joined = <<>> THEN DefaultKeywords ELSE joined

build_keywords_from_analysis(analysis) ==
  LET joined == Take(Join(KeywordLoop(KeywordParts(analysis), 1, {}, <<>>), <<" ">>), KeywordMax)
  IN  IF joined = <<>> THEN DefaultKeywords ELSE joined

(***************************************************************************)
(* JSON values, as response.json() / json.loads() deliver them             *)
(***************************************************************************)
JNull == [t |-> "null"]

JStr(s) == [t |-> "str", v |-> s]

JNum(n) == [t |-> "num", v |-> n]

JList(items) == [t |-> "list", v |-> items]

JObj(fields) == [t |-> "dict", v |-> fields]

Truthy(x) ==
  CASE x.t = "null" -> FALSE
    [] x.t = "str" -> Len(x.v) > 0
    [] x.t = "num" -> x.v # 0
    [] x.t = "list" -> Len(x.v) > 0
    [] x.t = "dict" -> DOMAIN x.v # {}

\* x or y
Or(x, y) == IF Truthy(x) THEN x ELSE y

\* d.get(key) on a dict
Get(d, key) == IF key \in DOMAIN d.v THEN d.v[key] ELSE JNull

\* d.get(key, default) on a dict
GetDefault(d, key, default) == IF key \in DOMAIN d.v THEN d.v[key] ELSE default

\* str(n) for an int n >= 0
RECURSIVE IntStr(_)
IntStr(n) == IF n < 10 THEN <<Digits[n + 1]>> ELSE IntStr(n \div 10) \o <<Digits[(n % 10) + 1]>>

\* str(x) and f"{x}" of a JSON scalar
PyStr(x) ==
  CASE x.t = "str" -> x.v
    [] x.t = "num" -> IntStr(x.v)
    [] x.t = "null" -> Chars("None")

\* the callee's results: a returned value or a raised exception
Ok(v) == [status |-> "ok", value |-> v]

Raised(e) == [status |-> "raised", error |-> e]

(***************************************************************************)
(* _strip_html                                                             *)
(***************************************************************************)
\* the end of a match of <\s*br\s*/?> (re.I) starting at p, or 0
BrEnd(s, p) ==
  IF s[p] # "<" THEN 0
  ELSE LET j == SkipSpaces(s, p + 1)
       IN  IF ~(j + 1 <= Len(s) /\ LowerChar(s[j]) = "b" /\ LowerChar(s[j + 1]) = "r") THEN 0
           ELSE LET k == SkipSpaces(s, j + 2)
                    m == IF k <= Len(s) /\ s[k] = "/" THEN k + 1 ELSE k
                IN  IF m <= Len(s) /\ s[m] = ">" THEN m ELSE 0

\* the end of a match of <[^>]+> starting at p, or 0
TagEnd(s, p) ==
  IF s[p] # "<" THEN 0
  ELSE LET gts == {j \in (p + 1)..Len(s) : s[j] = ">"}
       IN  IF gts = {} THEN 0
           ELSE IF MinOf(gts) = p + 1 THEN 0 ELSE MinOf(gts)

RECURSIVE SubBr(_, _)
SubBr(s, i) ==
  LET starts == {p \in i..Len(s) : BrEnd(s, p) > 0}
  IN  IF starts = {} THEN SubSeq(s, i, Len(s))
      ELSE LET p == MinOf(starts)
           IN  SubSeq(s, i, p - 1) \o <<"\n">> \o SubBr(s, BrEnd(s, p) + 1)

RECURSIVE SubTags(_, _)
SubTags(s, i) ==
  LET starts == {p \in i..Len(s) : TagEnd(s, p) > 0}
  IN  IF starts = {} THEN SubSeq(s, i, Len(s))
      ELSE LET p == MinOf(starts)
           IN  SubSeq(s, i, p - 1) \o SubTags(s, TagEnd(s, p) + 1)

\* re.sub(r"\n{3,}", "\n\n", s): the third and later newlines of a run go
CollapseNewlines(s) ==
  LET idx == SelectSeq([i \in 1..Len(s) |-> i],
                       LAMBDA i : ~(i >= 3 /\ s[i] = "\n" /\ s[i - 1] = "\n" /\ s[i - 2] = "\n"))
  IN  [n \in 1..Len(idx) |-> s[idx[n]]]

strip_html(s) ==
  IF s = <<>> THEN <<>> ELSE Strip(CollapseNewlines(SubTags(SubBr(s, 1), 1)))

(***************************************************************************)
(* _keyword_match                                                          *)
(***************************************************************************)
\* [t for t in re.split(r"\s+", s) if t]: the maximal runs of non-space
Tokens(s) ==
  {SubSeq(s, i, j) : <<i, j>> \in
     {ij \in (1..Len(s)) \X (1..Len(s)) :
        /\ ij[1] <= ij[2]
        /\ \A n \in ij[1]..ij[2] : ~IsSpace(s[n])
        /\ (ij[1] = 1 \/ IsSpace(s[ij[1] - 1]))
        /\ (ij[2] = Len(s) \/ IsSpace(s[ij[2] + 1]))}}

keyword_match(kw, hay) ==
  IF kw = <<>> THEN TRUE
  ELSE LET hay_l == Lower(hay)
       IN  \E tok \in Tokens(Lower(kw)) : Contains(hay_l, tok)

(***************************************************************************)
(* call_hf_for_analysis and the /analyze endpoint                          *)
(***************************************************************************)
MinCvLength == 50

\* the texts the external model may generate (or str(output) may give), each
\* with what json.loads makes of it
JsonTexts ==
  { <<<<>>, Raised("JSONDecodeError")>>,
    <<Chars("Dev, python"), Raised("JSONDecodeError")>>,
    <<Chars("None"), Raised("JSONDecodeError")>>,
    <<Chars("{'error': 'loading'}"), Raised("JSONDecodeError")>>,
    <<Chars("[]"), Ok(JList(<<>>))>>,
    <<Chars("5"), Ok(JNum(5))>>,
    <<Chars("null"), Ok(JNull)>>,
    <<Chars("{}"), Ok(JObj(<<>>))>>,
    <<Chars("{\"job_titles\": \"Dev\", \"skills\": [\"python\"], \"experience_level\": \"Senior\", \"recommended_job_types\": \"remote\", \"summary\": \"ok\"}"),
      Ok(JObj([job_titles |-> JStr(Chars("Dev")), skills |-> JList(<<JStr(Chars("python"))>>),
               experience_level |-> JStr(Chars("Senior")),
               recommended_job_types |-> JStr(Chars("remote")),
               summary |-> JStr(Chars("ok"))]))>>,
    <<Chars("{\"job_titles\": [\"Dev\"], \"skills\": null, \"experience_level\": 5}"),
      Ok(JObj([job_titles |-> JList(<<JStr(Chars("Dev"))>>), skills |-> JNull,
               experience_level |-> JNum(5)]))>>,
    <<Chars("{\"job_titles\": {\"a\": 1}}"),
      Ok(JObj([job_titles |-> JObj([a |-> JNum(1)])]))>> }

\* json.loads(text)
JsonLoads(text) ==
  IF \E e \in JsonTexts : e[1] = text
  THEN (CHOOSE e \in JsonTexts : e[1] = text)[2]
  ELSE Raised("JSONDecodeError")

\* str(output) of a parsed body that is not a list: a scalar, {} or {"error": "..."}
ReprOf(output) ==
  CASE output.t \in {"null", "num", "str"} -> PyStr(output)
    [] output.t = "dict" /\ DOMAIN output.v = {} -> Chars("{}")
    [] output.t = "dict" /\ DOMAIN output.v = {"error"} ->
         Chars("{'error': '") \o output.v.error.v \o Chars("'}")

\* lines 206-219: output[0]["generated_text"] if isinstance(output, list) else
\* str(output), and "" on any exception
TextOut(http) ==
  IF http.status = "raised" THEN JStr(<<>>)
  ELSE LET output == http.value
       IN  IF output.t # "list" THEN JStr(ReprOf(output))
           ELSE IF Len(output.v) = 0 THEN JStr(<<>>)
           ELSE IF output.v[1].t # "dict" THEN JStr(<<>>)
           ELSE IF "generated_text" \notin DOMAIN output.v[1].v THEN JStr(<<>>)
           ELSE output.v[1].v.generated_text

\* lines 222-225: json.loads(text_out), and {} on any exception
DataOf(text_out) ==
  IF text_out.t # "str" THEN JObj(<<>>)
  ELSE LET parsed == JsonLoads(text_out.v)
       IN  IF parsed.status = "raised" THEN JObj(<<>>) ELSE parsed.value

\* if isinstance(x, str): x = [x]
Wrapped(x) == IF x.t = "str" THEN JList(<<x>>) ELSE x

IsListOfStr(x) == x.t = "list" /\ \A i \in 1..Len(x.v) : x.v[i].t = "str"

StrList(x) == [i \in 1..Len(x.v) |-> x.v[i].v]

\* lines 221-247, after the call
ProfileFrom(text_out) ==
  LET data == DataOf(text_out)
  IN  IF data.t # "dict" THEN Raised("AttributeError")
      ELSE LET job_titles == Wrapped(Or(Get(data, "job_titles"), JList(<<>>)))
               skills == Wrapped(Or(Get(data, "skills"), JList(<<>>)))
               experience_level == Or(Get(data, "experience_level"), JStr(Chars("unknown")))
               recommended_job_types ==
                 Wrapped(Or(Get(data, "recommended_job_types"), JList(<<>>)))
           IN  IF ~Truthy(Get(data, "summary")) /\ text_out.t # "str"
               THEN Raised("AttributeError")
               ELSE LET summary == Or(Get(data, "summary"), JStr(Strip(text_out.v)))
                    IN  IF /\ IsListOfStr(job_titles)
                           /\ IsListOfStr(skills)
                           /\ IsListOfStr(recommended_job_types)
                           /\ summary.t = "str"
                        THEN Ok(AnalysisResult(StrList(job_titles), StrList(skills),
                                               Lower(PyStr(experience_level)),
                                               StrList(recommended_job_types), summary.v))
                        ELSE Raised("ValidationError")

call_hf_for_analysis(cv_text, hf_token, http) ==
  IF ~hf_token THEN Ok(analyze_cv_rule_based(cv_text)) ELSE ProfileFrom(TextOut(http))

(***************************************************************************)
(* JobItem and the provider adapters                                       *)
(***************************************************************************)
DescMax == 400

DEFAULT_JOB_LOCATION == Chars("Remote")

JobItem(title, company, location, description, apply_link, source) ==
  [title |-> title, company |-> company, location |-> location,
   description |-> description, apply_link |-> apply_link, source |-> source]

RECURSIVE SetToSeq(_)
SetToSeq(S) == IF S = {} THEN <<>> ELSE LET x == CHOOSE y \in S : TRUE IN <<x>> \o SetToSeq(S \ {x})

\* for item in x: the items a for loop draws from a JSON value
IterItems(x) ==
  CASE x.t = "list" -> Ok(x.v)
    [] x.t = "str" -> Ok([i \in 1..Len(x.v) |-> JStr(<<x.v[i]>>)])
    [] x.t = "dict" -> Ok(LET ks == SetToSeq(DOMAIN x.v) IN [i \in 1..Len(ks) |-> JStr(Chars(ks[i]))])
    [] OTHER -> Raised("TypeError")

\* one iteration of an adapter's loop: a posting, a continue, or an exception
Post(job) == [kind |-> "post", job |-> job]

Skip == [kind |-> "skip"]

Throw(e) == [kind |-> "raise", error |-> e]

\* pydantic accepts a str for a str field and rejects null, list and dict
Validated(job) ==
  IF \A f \in {"title", "company", "location", "description", "apply_link"} : job[f].t = "str"
  THEN Post([f \in DOMAIN job |-> IF f = "source" THEN job[f] ELSE job[f].v])
  ELSE Throw("ValidationError")

\* the adapters' for loop over the per-item outcomes rs: results.append(...),
\* and with stops the test  if len(results) >= limit: break
RECURSIVE Collect(_, _, _, _, _)
Collect(rs, i, results, limit, stops) ==
  IF i > Len(rs) THEN Ok(results)
  ELSE CASE rs[i].kind = "raise" -> Raised(rs[i].error)
         [] rs[i].kind = "skip" -> Collect(rs, i + 1, results, limit, stops)
         [] rs[i].kind = "post" ->
              LET r2 == Append(results, rs[i].job)
              IN  IF stops /\ Len(r2) >= limit THEN Ok(r2)
                  ELSE Collect(rs, i + 1, r2, limit, stops)

\* " ".join(tags) if isinstance(tags, list) else str(tags)
TagStr(tags) ==
  IF tags.t = "list"
  THEN IF \A i \in 1..Len(tags.v) : tags.v[i].t = "str"
       THEN Ok(Join([i \in 1..Len(tags.v) |-> tags.v[i].v], <<" ">>))
       ELSE Raised("TypeError")
  ELSE Ok(PyStr(tags))

RemotiveItem(item, kw) ==
  IF item.t # "dict" THEN Throw("AttributeError")
  ELSE LET title == Or(Get(item, "title"), JStr(Chars("Unknown Role")))
           company == Or(Get(item, "company_name"), JStr(Chars("Unknown Company")))
           loc == Or(Get(item, "candidate_required_location"), JStr(Chars("Remote")))
           raw == Or(Get(item, "description"), JStr(<<>>))
           link == Or(Get(item, "url"), JStr(<<>>))
       IN  IF raw.t # "str" THEN Throw("TypeError")
           ELSE LET desc == strip_html(raw.v)
                    hay == Join(<<PyStr(title), PyStr(company), desc, PyStr(loc)>>, <<" ">>)
                IN  IF ~keyword_match(kw, hay) THEN Skip
                    ELSE Validated(JobItem(title, company, loc, JStr(Take(desc, DescMax)),
                                           link, "Remotive"))

search_jobs_remotive(kw, limit, http) ==
  IF http.status = "raised" THEN Ok(<<>>)
  ELSE LET payload == http.value
       IN  IF payload.t # "dict" THEN Raised("AttributeError")
           ELSE LET it == IterItems(Or(GetDefault(payload, "jobs", JList(<<>>)), JList(<<>>)))
                IN  IF it.status = "raised" THEN it
                    ELSE Collect([i \in 1..Len(it.value) |-> RemotiveItem(it.value[i], kw)],
                                 1, <<>>, limit, TRUE)

RemoteOkItem(item, kw) ==
  IF item.t # "dict" THEN Skip
  ELSE LET title == Or(Or(Get(item, "position"), Get(item, "title")), JStr(Chars("Unknown Role")))
           company == Or(Get(item, "company"), JStr(Chars("Unknown Company")))
           loc == Or(Get(item, "location"), JStr(Chars("Remote")))
           raw == Or(Get(item, "description"), JStr(<<>>))
           link == Or(Get(item, "url"), JStr(<<>>))
           tag_str == TagStr(Or(Get(item, "tags"), JList(<<>>)))
       IN  IF raw.t # "str" THEN Throw("TypeError")
           ELSE IF tag_str.status = "raised" THEN Throw(tag_str.error)
           ELSE LET desc == strip_html(raw.v)
                    hay == Join(<<PyStr(title), PyStr(company), PyStr(loc), tag_str.value, desc>>,
                                <<" ">>)
                IN  IF ~keyword_match(kw, hay) THEN Skip
                    ELSE Validated(JobItem(title, company, loc, JStr(Take(desc, DescMax)),
                                           link, "Remote OK"))

\* for base in [remoteok.com, remoteok.io]: the first answer that parses, else None
RemoteOkPayload(http1, http2) ==
  IF http1.status = "ok" THEN http1.value
  ELSE IF http2.status = "ok" THEN http2.value
  ELSE JNull

search_jobs_remoteok(kw, limit, http1, http2) ==
  LET payload == RemoteOkPayload(http1, http2)
  IN  IF payload.t # "list" THEN Ok(<<>>)
      ELSE LET rest == SubSeq(payload.v, 2, Len(payload.v))
           IN  Collect([i \in 1..Len(rest) |-> RemoteOkItem(rest[i], kw)], 1, <<>>, limit, TRUE)

ArbeitnowItem(item, kw) ==
  IF item.t # "dict" THEN Skip
  ELSE LET title == Or(Get(item, "title"), JStr(Chars("Unknown Role")))
           company == Or(Get(item, "company_name"), JStr(Chars("Unknown Company")))
           loc == Or(Get(item, "location"), JStr(<<>>))
           raw == Or(Get(item, "description"), JStr(<<>>))
           link == Or(Get(item, "url"), JStr(<<>>))
           tag_str == TagStr(Or(Get(item, "tags"), JList(<<>>)))
       IN  IF raw.t # "str" THEN Throw("TypeError")
           ELSE IF tag_str.status = "raised" THEN Throw(tag_str.error)
           ELSE LET desc == strip_html(raw.v)
                    hay == Join(<<PyStr(title), PyStr(company), PyStr(loc), tag_str.value, desc>>,
                                <<" ">>)
                IN  IF ~keyword_match(kw, hay) THEN Skip
                    ELSE Validated(JobItem(title, company, Or(loc, JStr(DEFAULT_JOB_LOCATION)),
                                           JStr(Take(desc, DescMax)), link, "Arbeitnow"))

search_jobs_arbeitnow(kw, limit, http) ==
  IF http.status = "raised" THEN Ok(<<>>)
  ELSE LET payload == http.value
           data == IF payload.t = "dict" THEN Get(payload, "data") ELSE JNull
       IN  IF data.t # "list" THEN Ok(<<>>)
           ELSE Collect([i \in 1..Len(data.v) |-> ArbeitnowItem(data.v[i], kw)],
                        1, <<>>, limit, TRUE)

\* (item.get(key) or {}).get("display_name")
DisplayName(item, key) ==
  LET d == Or(Get(item, key), JObj(<<>>))
  IN  IF d.t # "dict" THEN Raised("AttributeError") ELSE Ok(Get(d, "display_name"))

AdzunaItem(item, location) ==
  IF item.t # "dict" THEN Throw("AttributeError")
  ELSE LET title == Or(Get(item, "title"), JStr(Chars("Unknown Role")))
           company == DisplayName(item, "company")
           loc == DisplayName(item, "location")
           raw == Get(item, "description")
           link == Or(Get(item, "redirect_url"), JStr(<<>>))
       IN  IF company.status = "raised" THEN Throw(company.error)
           ELSE IF loc.status = "raised" THEN Throw(loc.error)
           ELSE IF Truthy(raw) /\ raw.t \notin {"str", "list"} THEN Throw("TypeError")
           ELSE Validated(JobItem(
                  title,
                  Or(company.value, JStr(Chars("Unknown Company"))),
                  Or(Or(loc.value, location), JStr(DEFAULT_JOB_LOCATION)),
                  IF ~Truthy(raw) THEN JStr(<<>>)
                  ELSE IF raw.t = "str" THEN JStr(Take(raw.v, DescMax))
                  ELSE JList(Take(raw.v, DescMax)),
                  link, "Adzuna"))

search_jobs_adzuna(kw, location, limit, configured, http) ==
  IF ~configured THEN Ok(<<>>)
  ELSE IF http.status = "raised" THEN Ok(<<>>)
  ELSE LET payload == http.value
       IN  IF payload.t # "dict" THEN Raised("AttributeError")
           ELSE LET it == IterItems(GetDefault(payload, "results", JList(<<>>)))
                IN  IF it.status = "raised" THEN it
                    ELSE Collect([i \in 1..Len(it.value) |-> AdzunaItem(it.value[i], location)],
                                 1, <<>>, limit, FALSE)

(***************************************************************************)
(* _dedupe_jobs, mocked_jobs                                               *)
(***************************************************************************)
DedupeKey(j) ==
  LET link == Lower(Strip(j.apply_link))
  IN  IF link # <<>> THEN link ELSE Lower(j.title \o <<"|">> \o j.company)

RECURSIVE DedupeLoop(_, _, _, _, _)
DedupeLoop(jobs, i, seen, out, limit) ==
  IF i > Len(jobs) THEN out
  ELSE LET key == DedupeKey(jobs[i])
       IN  IF key \in seen THEN DedupeLoop(jobs, i + 1, seen, out, limit)
           ELSE IF Len(out) + 1 >= limit THEN Append(out, jobs[i])
           ELSE DedupeLoop(jobs, i + 1, seen \cup {key}, Append(out, jobs[i]), limit)

\* a _dedupe_jobs that forgets the seen check
dedupe_jobs_keeps_duplicates(jobs, limit) == Take(jobs, limit)

\* a _dedupe_jobs that forgets to stop at limit
dedupe_jobs_ignores_limit(jobs, limit) == DedupeLoop(jobs, 1, {}, <<>>, Len(jobs) + 1)

dedupe_jobs(jobs, limit) == DedupeLoop(jobs, 1, {}, <<>>, limit)

mocked_jobs(analysis, location, limit) ==
  LET first_title == IF Len(analysis.job_titles) > 0 THEN analysis.job_titles[1] ELSE <<>>
      primary_title == IF first_title # <<>> THEN first_title ELSE Chars("Software Engineer")
      first_type == IF Len(analysis.recommended_job_types) > 0
                    THEN analysis.recommended_job_types[1] ELSE <<>>
      primary_type == IF first_type # <<>> THEN first_type ELSE primary_title
      base_jobs ==
        << JobItem(primary_title \o Chars(" (") \o Title(analysis.experience_level)
                     \o Chars(" Level)"),
                   Chars("SmartCV Labs"), location,
                   Chars("Leverage your skills in a modern engineering environment."),
                   Chars("https://example.com/jobs/smartcv-labs"), "Mocked"),
           JobItem(primary_type \o Chars(" - Remote Friendly"),
                   Chars("FutureWork Global"), location,
                   Chars("Join a distributed team solving real-world problems."),
                   Chars("https://example.com/jobs/futurework-global"), "Mocked") >>
      n == IF limit < Len(base_jobs) THEN limit ELSE Len(base_jobs)
  IN  Take(base_jobs, IF n > 1 THEN n ELSE 1)

(***************************************************************************)
(* find_jobs                                                               *)
(***************************************************************************)
LimitMax == 50

\* max(1, min(request.limit, 50))
ClampLimit(n) ==
  LET m == IF n < LimitMax THEN n ELSE LimitMax
  IN  IF m > 1 THEN m ELSE 1

\* request.location or DEFAULT_JOB_LOCATION
LocationOf(req) == Or(req.location, JStr(DEFAULT_JOB_LOCATION))

(***************************************************************************)
(* The providers' answers: a listing is what a provider holds about one    *)
(* job, each field a JSON value; every provider encodes it in its own      *)
(* schema.  An answer is a failed call (transport error, timeout, non-2xx  *)
(* status, a body that is not JSON) or the parsed body.                    *)
(***************************************************************************)
MaxRecords == 3

Listing(title, company, location, description, link, tags) ==
  [title |-> title, company |-> company, location |-> location,
   description |-> description, link |-> link, tags |-> tags]

RemotiveRecord(l) ==
  JObj([title |-> l.title, company_name |-> l.company,
        candidate_required_location |-> l.location,
        description |-> l.description, url |-> l.link])

RemoteOkRecord(l) ==
  JObj([position |-> l.title, company |-> l.company, location |-> l.location,
        description |-> l.description, url |-> l.link, tags |-> l.tags])

ArbeitnowRecord(l) ==
  JObj([title |-> l.title, company_name |-> l.company, location |-> l.location,
        description |-> l.description, url |-> l.link, tags |-> l.tags])

AdzunaRecord(l) ==
  JObj([title |-> l.title,
        company |-> IF l.company.t = "null" THEN JNull ELSE JObj([display_name |-> l.company]),
        location |-> IF l.location.t = "null" THEN JNull ELSE JObj([display_name |-> l.location]),
        description |-> l.description, redirect_url |-> l.link])

RemotiveBody(recs) == JObj([jobs |-> JList(recs)])

\* the feed's first element is its legal notice
RemoteOkBody(recs) == JList(<<JObj([legal |-> JStr(Chars("API terms"))])>> \o recs)

ArbeitnowBody(recs) == JObj([data |-> JList(recs)])

AdzunaBody(recs) == JObj([results |-> JList(recs)])

SeqsUpTo(S, n) == UNION {[1..k -> S] : k \in 0..n}

JobListings ==
  { Listing(JStr(Chars("Dev")), JStr(Chars("Co")), JStr(Chars("Amman")), JStr(Chars("x")),
            JStr(Chars("u")), JNull),
    Listing(JStr(Chars("dev")), JStr(Chars("co")), JNull, JStr(Chars("ops")),
            JStr(Chars(" U ")), JList(<<JStr(Chars("ops"))>>)),
    Listing(JStr(Chars("Dev")), JStr(Chars("Co")), JNull, JStr(Chars("ops")),
            JNull, JNull),
    Listing(JStr(Chars(" DEV")), JStr(Chars("co")), JStr(Chars("Amman")), JStr(Chars("a<b>ops")),
            JStr(<<>>), JNull) }

FindJobsRequest(analysis, location, limit) ==
  [analysis |-> analysis, location |-> location, limit |-> limit]

JobRequests ==
  { FindJobsRequest(
      AnalysisResult(<<Chars("Dev")>>, <<>>, Chars("mid"), <<Chars("remote")>>, <<>>),
      JNull, n) : n \in {0, 2, 20} }
    \cup
  { FindJobsRequest(
      AnalysisResult(<<>>, <<Chars("ops")>>, Chars("unknown"), <<>>, <<>>),
      JStr(Chars("Amman")), 2) }

HttpErrors == {"Timeout", "HTTPError", "JSONDecodeError"}

\* the answers a provider may give: a failed call, a body of another shape
\* than the adapter expects, or a body with up to n of the records
Answers(bodies, malformed) ==
  {Raised(e) : e \in HttpErrors}
    \cup {Ok(m) : m \in malformed}
    \cup {Ok(b) : b \in bodies}

\* the number of records in an answer
Records(http) ==
  IF http.status = "raised" THEN 0
  ELSE IF http.value.t = "list" THEN IF Len(http.value.v) > 0 THEN Len(http.value.v) - 1 ELSE 0
  ELSE IF http.value.t # "dict" THEN 0
  ELSE LET ks == DOMAIN http.value.v
       IN  IF ks = {} THEN 0 ELSE Len((http.value.v[CHOOSE k \in ks : TRUE]).v)

Limit == ClampLimit(request.limit)

Init ==
  /\ pc = "start"
  /\ env \in [adzuna : BOOLEAN]
  /\ request \in JobRequests
  /\ keywords = <<>>
  /\ collected = <<>>
  /\ fetched = 0
  /\ response = Ok(<<>>)

\* lines 497-504
FindJobsStart ==
  /\ pc = "start"
  /\ keywords' = build_keywords_from_analysis(request.analysis)
  /\ collected' = <<>>
  /\ pc' = "remotive"
  /\ UNCHANGED <<env, request, fetched, response>>

\* collected += <adapter result>, or the adapter's exception leaves find_jobs
Collected(r, http, next) ==
  /\ fetched' = fetched + Records(http)
  /\ IF r.status = "raised"
     THEN pc' = "raised" /\ response' = r /\ UNCHANGED collected
     ELSE pc' = next /\ collected' = collected \o r.value /\ UNCHANGED response
  /\ UNCHANGED <<env, request, keywords>>

CallRemotive ==
  /\ pc = "remotive"
  /\ \E http \in Answers({RemotiveBody(recs) : recs \in SeqsUpTo({RemotiveRecord(l) : l \in JobListings},
                                 MaxRecords - fetched)}, {JList(<<>>)}) :
       Collected(search_jobs_remotive(keywords, Limit, http), http, "remoteok")

CallRemoteOk ==
  /\ pc = "remoteok"
  /\ \E http \in Answers({RemoteOkBody(recs) : recs \in SeqsUpTo({RemoteOkRecord(l) : l \in JobListings},
                                 MaxRecords - fetched)}, {JObj(<<>>)}) :
       \E first \in {Raised("Timeout"), http} :
         Collected(search_jobs_remoteok(keywords, Limit, first, http), http, "arbeitnow")

CallArbeitnow ==
  /\ pc = "arbeitnow"
  /\ \E http \in Answers({ArbeitnowBody(recs) : recs \in SeqsUpTo({ArbeitnowRecord(l) : l \in JobListings},
                                 MaxRecords - fetched)}, {JList(<<>>)}) :
       Collected(search_jobs_arbeitnow(keywords, Limit, http), http, "adzuna")

CallAdzuna ==
  /\ pc = "adzuna"
  /\ \E http \in IF env.adzuna
                 THEN Answers({AdzunaBody(recs) : recs \in SeqsUpTo({AdzunaRecord(l) : l \in JobListings},
                                 MaxRecords - fetched)}, {JList(<<>>)})
                 ELSE {Raised("not called")} :
       Collected(search_jobs_adzuna(keywords, LocationOf(request), Limit, env.adzuna, http),
                 http, "dedupe")

\* lines 514-518
FindJobsReturn ==
  /\ pc = "dedupe"
  /\ LET jobs == dedupe_jobs(collected, Limit)
     IN  response' = Ok(IF jobs = <<>>
                        THEN mocked_jobs(request.analysis, LocationOf(request).v, Limit)
                        ELSE jobs)
  /\ pc' = "done"
  /\ UNCHANGED <<env, request, keywords, collected, fetched>>

Next ==
  \/ FindJobsStart
  \/ CallRemotive
  \/ CallRemoteOk
  \/ CallArbeitnow
  \/ CallAdzuna
  \/ FindJobsReturn

Spec == Init /\ [][Next]_vars

(***************************************************************************)
(* Properties of find_jobs (specification Spec)                            *)
(***************************************************************************)
Returned == pc = "done"

Finished == pc \in {"done", "raised"}

IsMocked(jobs) == \E i \in 1..Len(jobs) : jobs[i].source = "Mocked"

\* the key under which _dedupe_jobs files a posting: its lower-cased, trimmed
\* apply_link unless that is empty, else its lower-cased "{title}|{company}"
IdentityKey(j) ==
  IF Strip(j.apply_link) # <<>> THEN Lower(Strip(j.apply_link))
  ELSE Lower(j.title) \o <<"|">> \o Lower(j.company)

\* the key as section 3 words it: the fallback "{title}|{company}" trimmed too
TrimmedKey(j) ==
  IF Strip(j.apply_link) # <<>> THEN Lower(Strip(j.apply_link))
  ELSE Lower(Strip(j.title \o <<"|">> \o j.company))

DistinctKeys(jobs) == {IdentityKey(jobs[i]) : i \in 1..Len(jobs)}

\* the positions of jobs that hold the first posting with their key
Firsts(jobs) ==
  {i \in 1..Len(jobs) : \A h \in 1..(i - 1) : IdentityKey(jobs[h]) # IdentityKey(jobs[i])}

ProviderRank(source) ==
  CASE source = "Remotive" -> 1
    [] source = "Remote OK" -> 2
    [] source = "Arbeitnow" -> 3
    [] source = "Adzuna" -> 4
    [] OTHER -> 5

\* C1: every find_jobs request ends with a returned list of at least 1 and at
\* most L postings (L the limit clamped into 1..50), whatever the providers
\* answer; the list is made of placeholders (source "Mocked") exactly when
\* deduplication yields no posting.
C1_NonEmptyBounded ==
  Finished =>
    /\ Returned
    /\ Len(response.value) >= 1
    /\ Len(response.value) <= Limit
    /\ IsMocked(response.value) <=> collected = <<>>
    /\ IsMocked(response.value) => \A i \in 1..Len(response.value) : response.value[i].source = "Mocked"

C4_TrimmedKeyCollapses ==
  (Returned /\ ~IsMocked(response.value)) =>
    \A m, n \in 1..Len(response.value) :
      m # n => TrimmedKey(response.value[m]) # TrimmedKey(response.value[n])

MaxItems == 2

AdapterListings ==
  { Listing(JStr(Chars("Dev")), JStr(Chars("Co")), JStr(Chars("Amman")),
            JStr(Chars("plain dev")), JStr(Chars("u")), JNull),
    Listing(JNull, JNull, JNull, JStr(Chars("<p>Dev< BR />ops</p>")), JNull,
            JList(<<JStr(Chars("ops"))>>)),
    Listing(JStr(Chars("Dev")), JStr(Chars("Co")), JNull,
            JStr(Chars("<b>") \o Repeat("x", DescMax + 5) \o Chars("</b> dev")),
            JStr(Chars("v")), JStr(Chars("dev"))),
    Listing(JStr(Chars("Dev")), JStr(Chars("Co")), JNull,
            JStr(Repeat("y", DescMax - 2) \o Chars("<i>dev</i>")), JStr(Chars("w")), JNull),
    Listing(JStr(Chars("Dev")), JStr(Chars("Co")), JNull, JNum(5), JStr(Chars("t")), JNull),
    Listing(JStr(Chars("Dev")), JStr(Chars("Co")), JNull, JStr(Chars("dev")), JNull,
            JList(<<JNum(1)>>)) }

\* a record that is not an object
NotAnObject == JNum(7)

\* bodies of another shape than {key: [records]}
MalformedBodies(key) ==
  {JNull, JNum(5), JStr(Chars("no")), JList(<<>>), JList(<<NotAnObject>>), JObj(<<>>)}
    \cup {JObj([k \in {key} |-> x]) : x \in {JNull, JNum(5), JStr(Chars("no"))}}

AdapterKeywords == {<<>>, Chars("dev"), Chars("Go  rust")}

InitAdapters ==
  /\ pc = "call"
  /\ env \in [adzuna : BOOLEAN]
  /\ request \in [limit : {1, 2}, location : {JNull, JStr(Chars("Amman"))}]
  /\ keywords \in AdapterKeywords
  /\ collected = <<>>
  /\ fetched = 0
  /\ response = Ok(<<>>)

\* the adapter's caller sees the result in response.result
Returns(provider, http, result) ==
  /\ response' = [provider |-> provider, http |-> http, result |-> result]
  /\ pc' = "returned"
  /\ UNCHANGED <<env, request, keywords, collected, fetched>>

SearchRemotive ==
  /\ pc = "call"
  /\ \E http \in Answers({RemotiveBody(recs) : recs \in SeqsUpTo(
                           {RemotiveRecord(l) : l \in AdapterListings} \cup {NotAnObject}, MaxItems)},
                         MalformedBodies("jobs")) :
       Returns("Remotive", http, search_jobs_remotive(keywords, request.limit, http))

SearchRemoteOk ==
  /\ pc = "call"
  /\ \E http \in Answers({RemoteOkBody(recs) : recs \in SeqsUpTo(
                           {RemoteOkRecord(l) : l \in AdapterListings} \cup {NotAnObject}, MaxItems)},
                         MalformedBodies("jobs")) :
       \E first \in {Raised("Timeout"), http} :
         Returns("Remote OK", http, search_jobs_remoteok(keywords, request.limit, first, http))

SearchArbeitnow ==
  /\ pc = "call"
  /\ \E http \in Answers({ArbeitnowBody(recs) : recs \in SeqsUpTo(
                           {ArbeitnowRecord(l) : l \in AdapterListings} \cup {NotAnObject}, MaxItems)},
                         MalformedBodies("data")) :
       Returns("Arbeitnow", http, search_jobs_arbeitnow(keywords, request.limit, http))

SearchAdzuna ==
  /\ pc = "call"
  /\ \E http \in Answers({AdzunaBody(recs) : recs \in SeqsUpTo(
                           {AdzunaRecord(l) : l \in AdapterListings} \cup {NotAnObject}, MaxItems)},
                         MalformedBodies("results")) :
       Returns("Adzuna", http,
               search_jobs_adzuna(keywords, request.location, request.limit, env.adzuna, http))

NextAdapters ==
  \/ SearchRemotive
  \/ SearchRemoteOk
  \/ SearchArbeitnow
  \/ SearchAdzuna

SpecAdapters == InitAdapters /\ [][NextAdapters]_vars

AdapterReturned == pc = "returned"

\* a "<", at least one character other than ">", and a ">"
HasTag(s) ==
  \E i, j \in 1..Len(s) :
    /\ s[i] = "<"
    /\ s[j] = ">"
    /\ i + 1 < j
    /\ \A n \in (i + 1)..(j - 1) : s[n] # ">"

\* C2: no adapter raises to its caller, whatever the provider answers; it
\* returns a sequence of postings (empty on a failed call or a malformed body).
C2_AdaptersNeverRaise ==
  AdapterReturned => response.result.status = "ok"

\* C6: every adapter returns at most limit postings, also when the body
\* holds more than limit records.
C6_AtMostLimit ==
  (AdapterReturned /\ response.result.status = "ok") =>
    Len(response.result.value) <= request.limit

\* C7: every posting an adapter produces has a description of at most 400
\* characters that contains no HTML tag.
C7_DescriptionStripped ==
  (AdapterReturned /\ response.result.status = "ok") =>
    \A i \in 1..Len(response.result.value) :
      /\ Len(response.result.value[i].description) <= DescMax
      /\ ~HasTag(response.result.value[i].description)

(***************************************************************************)
(* The keyword builder on its own (specification SpecKeywords)             *)
(***************************************************************************)
MaxTitles == 2

LongTitle == Repeat("t", 60)

LongSkill == Repeat("s", 70)

TitlePool == {<<>>, Chars("  "), Chars("Dev"), Chars(" dev "), LongTitle}

KeywordTitles ==
  SeqsUpTo(TitlePool, MaxTitles)
    \cup { <<Chars("Backend Developer"), Chars("Data Analyst"), Chars("DevOps Engineer"),
             Chars("Extra Title")>> }

KeywordSkills ==
  { <<>>,
    <<Chars("python")>>,
    <<Chars("DEV"), Chars("remote")>>,
    <<LongSkill, Chars("Python "), Chars("python")>>,
    <<Chars("python"), Chars("sql"), Chars("go"), Chars("rust"), Chars("java"), Chars("sixth")>> }

KeywordTypes ==
  { <<>>,
    <<Chars("remote")>>,
    <<Chars("Remote"), Chars("\tfull-time"), Chars("third")>> }

InitKeywords ==
  /\ pc = "build"
  /\ env = [adzuna |-> FALSE]
  /\ request \in { [analysis |-> AnalysisResult(t, k, Chars("mid"), y, <<>>)] :
                     t \in KeywordTitles, k \in KeywordSkills, y \in KeywordTypes }
  /\ keywords = <<>>
  /\ collected = <<>>
  /\ fetched = 0
  /\ response = Ok(<<>>)

BuildKeywords ==
  /\ pc = "build"
  /\ keywords' = build_keywords_from_analysis(request.analysis)
  /\ pc' = "built"
  /\ UNCHANGED <<env, request, collected, fetched, response>>

NextKeywords == BuildKeywords

SpecKeywords == InitKeywords /\ [][NextKeywords]_vars

FirstN(s, n) == [i \in 1..(IF Len(s) < n THEN Len(s) ELSE n) |-> s[i]]

\* the first 3 job titles, then the first 5 skills, then the first 2 job types
Entries(analysis) ==
  FirstN(analysis.job_titles, 3) \o FirstN(analysis.skills, 5)
    \o FirstN(analysis.recommended_job_types, 2)

IsBlank(e) == \A i \in 1..Len(e) : IsSpace(e[i])

\* es[i], ..., es[Len(es)] without the blank entries and without the entries
\* that an earlier entry of es equals up to case, joined by single spaces
RECURSIVE JoinFirstSeen(_, _)
JoinFirstSeen(es, i) ==
  IF i > Len(es) THEN <<>>
  ELSE LET rest == JoinFirstSeen(es, i + 1)
           dropped == IsBlank(es[i]) \/ \E h \in 1..(i - 1) : Lower(es[h]) = Lower(es[i])
       IN  IF dropped THEN rest
           ELSE IF rest = <<>> THEN es[i]
           ELSE es[i] \o <<" ">> \o rest

Truncated(s) == IF s = <<>> THEN Chars("software developer") ELSE FirstN(s, KeywordMax)

\* C10 as stated: the keyword string is the space-joined entries (blank ones
\* dropped, case-insensitive duplicates dropped keeping the first), truncated
\* to 120 characters, or "software developer" when nothing is left; it is
\* never empty and never longer than 120.
C10_KeywordsAsStated ==
  pc = "built" =>
    /\ keywords = Truncated(JoinFirstSeen(Entries(request.analysis), 1))
    /\ Len(keywords) >= 1
    /\ Len(keywords) <= KeywordMax

\* C10 amended: as stated, with every entry trimmed of surrounding
\* whitespace before the blank test, the duplicate test and the join.
C10_KeywordsTrimmed ==
  pc = "built" =>
    LET es == Entries(request.analysis)
    IN  /\ keywords = Truncated(JoinFirstSeen([i \in 1..Len(es) |-> Strip(es[i])], 1))
        /\ Len(keywords) >= 1
        /\ Len(keywords) <= KeywordMax

\* C10's cases at once: a fourth title beyond the first three, a duplicate up
\* to case among the entries, and a join longer than 120 that was cut.
C10_Witness ==
  /\ pc = "built"
  /\ Len(keywords) = KeywordMax
  /\ \E i, j \in 1..Len(Entries(request.analysis)) :
       /\ i < j
       /\ ~IsBlank(Entries(request.analysis)[i])
       /\ Lower(Strip(Entries(request.analysis)[i])) = Lower(Strip(Entries(request.analysis)[j]))
  /\ Len(JoinFirstSeen([i \in 1..Len(Entries(request.analysis)) |->
                          Strip(Entries(request.analysis)[i])], 1)) > KeywordMax

(***************************************************************************)
(* The /analyze endpoint (specification SpecAnalyze): one request with a   *)
(* CV text, with or without HF_TOKEN, and any answer of the external       *)
(* service.                                                                *)
(***************************************************************************)
CvTexts ==
  { Chars("I have 5 years of experience in Python and enjoy remote work"),
    Chars("  Intern, 10 years of part time Java and SQL; full-time later.  "),
    Chars("Senior backend developer and devops engineer, 12+ yrs with Docker, AWS, Go."),
    Chars("Gardener, 2years on site, 100 yrs of family tradition and 7 yearsx."),
    Chars("short cv") }

GeneratedValues == {JStr(e[1]) : e \in JsonTexts} \cup {JNull, JNum(5)}

\* the external service's answers: a failed call or the parsed body
HfAnswers ==
  {Raised(e) : e \in HttpErrors}
    \cup {Ok(JList(<<JObj([generated_text |-> g])>>)) : g \in GeneratedValues}
    \cup {Ok(x) : x \in {JList(<<>>), JList(<<JNum(1)>>), JList(<<JObj(<<>>)>>), JNull, JNum(5),
                         JObj(<<>>), JObj([error |-> JStr(Chars("loading"))])}}

InitAnalyze ==
  /\ pc = "analyze"
  /\ env \in [hf_token : BOOLEAN]
  /\ request \in [cv_text : CvTexts]
  /\ keywords = <<>>
  /\ collected = <<>>
  /\ fetched = 0
  /\ response = Ok(<<>>)

\* lines 250-254
Analyze ==
  /\ pc = "analyze"
  /\ \E http \in IF env.hf_token THEN HfAnswers ELSE {Raised("not called")} :
       /\ response' =
            IF Len(Strip(request.cv_text)) < MinCvLength
            THEN [status |-> "rejected", http |-> http]
            ELSE [http |-> http] @@ call_hf_for_analysis(request.cv_text, env.hf_token, http)
       /\ pc' = IF Len(Strip(request.cv_text)) < MinCvLength THEN "rejected" ELSE "analyzed"
  /\ UNCHANGED <<env, request, keywords, collected, fetched>>

NextAnalyze == Analyze

SpecAnalyze == InitAnalyze /\ [][NextAnalyze]_vars

\* the external call failed: no answer, or an answer whose generated text is
\* not the JSON text of an object
ExternalFailure(http) ==
  \/ http.status = "raised"
  \/ TextOut(http).t # "str"
  \/ JsonLoads(TextOut(http).v).status = "raised"
  \/ JsonLoads(TextOut(http).v).value.t # "dict"

\* C8: with the credential configured, a failed external call makes
\* call_hf_for_analysis return (not raise) a profile with no job titles, no
\* skills and experience level "unknown", which is not the offline
\* heuristic's profile.
C8_FailureDegrades ==
  (pc = "analyzed" /\ env.hf_token /\ ExternalFailure(response.http)) =>
    /\ response.status = "ok"
    /\ response.value.job_titles = <<>>
    /\ response.value.skills = <<>>
    /\ response.value.experience_level = Chars("unknown")
    /\ response.value # analyze_cv_rule_based(request.cv_text)

\* C9: every profile the extractor returns, in either mode, has at least one
\* recommended job type.
C9_JobTypesNonEmpty ==
  (pc = "analyzed" /\ response.status = "ok") =>
    Len(response.value.recommended_job_types) >= 1

====
